---- MODULE Spec2Model ----
(***************************************************************************)
(* Policy engine facade of manila (manila/policy.py): a process-wide,     *)
(* lazily constructed oslo.policy Enforcer held in the module global      *)
(* _ENFORCER, and the functions that delegate to it.                      *)
(*                                                                         *)
(* Spec      : the functions called one after another (one caller).       *)
(* SpecConc  : several threads making their first call concurrently; the  *)
(*             statements of init() are separate steps.                   *)
(***************************************************************************)
EXTENDS Integers, Sequences, FiniteSets, TLC

VARIABLES
    _ENFORCER,      \* the module global: 0 is None, otherwise an object id
    heap,           \* object id -> the Enforcer object with that identity
    constructed,    \* number of policy.Enforcer(...) constructions so far
    registrations,  \* number of completed register_defaults calls so far
    last,           \* record of the most recent top-level call (history)
    pc,             \* SpecConc: thread -> position in its call
    top,            \* SpecConc: thread -> the operation it called
    tmp,            \* SpecConc: thread -> object built, not yet stored
    used            \* SpecConc: thread -> what its delegation ran on

vars == <<_ENFORCER, heap, constructed, registrations, last, pc, top, tmp, used>>

-----------------------------------------------------------------------------
(* Bounds *)

MaxEnforcers == 2
NThreads == 2

-----------------------------------------------------------------------------
(* Python values *)

None == <<>>
Some(x) == <<x>>
EmptyDict == [k \in {} |-> ""]

\* dict.update: the keys of u take u's values, the others keep d's
DictUpdate(d, u) ==
    [k \in (DOMAIN d) \cup (DOMAIN u) |-> IF k \in DOMAIN u THEN u[k] ELSE d[k]]

\* truthiness of the handle: None is falsy, an Enforcer object is truthy
Truthy(h) == h # 0

-----------------------------------------------------------------------------
(* The request context (manila.context.RequestContext) *)

Ctx(isdict, project_id, user_id, is_admin) ==
    [isdict |-> isdict, project_id |-> project_id, user_id |-> user_id,
     is_admin |-> is_admin]

\* an administrator of project p1 and a plain user of project p2
Contexts == {Ctx(FALSE, "p1", "u1", TRUE), Ctx(FALSE, "p2", "u2", FALSE)}

\* a context that already is a plain dict (accepted by enforce only)
DictContexts == {Ctx(TRUE, "p1", "u3", FALSE)}

NoContext == [isdict |-> FALSE, project_id |-> "", user_id |-> "", is_admin |-> FALSE]

\* the dict a dict context is
AsDict(context) ==
    [k \in {"project_id", "user_id", "is_admin"} |->
        CASE k = "project_id" -> context.project_id
          [] k = "user_id" -> context.user_id
          [] OTHER -> context.is_admin]

\* RequestContext.to_dict()
to_dict(context) ==
    [k \in {"project_id", "user_id", "is_admin", "read_deleted"} |->
        CASE k = "project_id" -> context.project_id
          [] k = "user_id" -> context.user_id
          [] k = "is_admin" -> context.is_admin
          [] OTHER -> "no"]

\* RequestContext.to_policy_values()
to_policy_values(context) ==
    [k \in {"project_id", "user_id", "is_admin"} |->
        CASE k = "project_id" -> context.project_id
          [] k = "user_id" -> context.user_id
          [] OTHER -> context.is_admin]

-----------------------------------------------------------------------------
(* Rules *)

ALWAYS == "@"
NEVER == "!"
ADMIN == "is_admin:True"
OWNER == "project_id:%(project_id)s"

\* policies.list_rules(): the static default rule set
list_rules ==
    [k \in {"context_is_admin", "default", "share:create", "share:delete",
            "share_type:create", "share_network:create"} |->
        CASE k = "context_is_admin" -> ADMIN
          [] k = "default" -> OWNER
          [] k = "share:create" -> ALWAYS
          [] k = "share:delete" -> OWNER
          [] k = "share_type:create" -> ADMIN
          [] OTHER -> ADMIN]

\* the rule dictionaries callers pass to init and set_rules
RuleDicts ==
    { EmptyDict,
      [k \in {"share:create", "default"} |-> IF k = "default" THEN ALWAYS ELSE NEVER] }

\* evaluation of one check string against a target and credentials
CheckHolds(check, target, creds) ==
    CASE check = ALWAYS -> TRUE
      [] check = NEVER -> FALSE
      [] check = ADMIN -> "is_admin" \in DOMAIN creds /\ creds["is_admin"] = TRUE
      [] OTHER -> /\ "project_id" \in DOMAIN target
                  /\ "project_id" \in DOMAIN creds
                  /\ creds["project_id"] = target["project_id"]

-----------------------------------------------------------------------------
(* Events and results of a call *)

Ev(ev, obj, action, target, creds, do_raise, exc, ready) ==
    [ev |-> ev, obj |-> obj, action |-> action, target |-> target,
     creds |-> creds, do_raise |-> do_raise, exc |-> exc, ready |-> ready]

Returned(kind, b, r) == [kind |-> kind, b |-> b, exc |-> "", r |-> r]
ReturnNone == Returned("None", FALSE, EmptyDict)
ReturnBool(b) == Returned("bool", b, EmptyDict)
Raised(e) == [kind |-> "raise", b |-> FALSE, exc |-> e, r |-> EmptyDict]

PolicyNotAuthorized == "PolicyNotAuthorized"
PolicyNotRegistered == "PolicyNotRegistered"
AttributeError == "AttributeError"
DuplicatePolicyError == "DuplicatePolicyError"

\* the classes callers pass as exc
ExcArgs == {"None", "Forbidden"}

-----------------------------------------------------------------------------
(* The Enforcer object (oslo_policy.policy.Enforcer) as this module uses it *)

NoObject == [rules |-> EmptyDict, registered_rules |-> EmptyDict,
             use_conf |-> FALSE, cleared |-> FALSE]

\* a machine state threaded through one call
Machine(h, hp, n, g) == [h |-> h, heap |-> hp, n |-> n, g |-> g,
                         ev |-> <<>>, out |-> ReturnNone]

Log(m, e) == [m EXCEPT !.ev = Append(m.ev, e)]

\* the default rules are registered on the object
Ready(hp, o) ==
    /\ o # 0
    /\ \A k \in DOMAIN list_rules :
          k \in DOMAIN hp[o].registered_rules /\ hp[o].registered_rules[k] = list_rules[k]

\* policy.Enforcer(CONF, rules=rules, use_conf=use_conf): a new object
Construct(m, rules, use_conf) ==
    LET o == m.n + 1
        obj == [rules |-> IF rules = None THEN EmptyDict ELSE rules[1],
                registered_rules |-> EmptyDict,
                use_conf |-> use_conf, cleared |-> FALSE]
    IN  Log([m EXCEPT !.h = o, !.n = o, !.heap = [m.heap EXCEPT ![o] = obj]],
            Ev("construct", o, "", EmptyDict, EmptyDict, use_conf, "", FALSE))

\* Enforcer.register_defaults(defaults)
RegisterDefaults(m, o, defaults) ==
    IF o = 0 THEN
        [Log(m, Ev("register_defaults", 0, "", EmptyDict, EmptyDict, FALSE, "", FALSE))
            EXCEPT !.out = Raised(AttributeError)]
    ELSE IF \E k \in DOMAIN defaults : k \in DOMAIN m.heap[o].registered_rules THEN
        [Log(m, Ev("register_defaults", o, "", EmptyDict, EmptyDict, FALSE, "", Ready(m.heap, o)))
            EXCEPT !.out = Raised(DuplicatePolicyError)]
    ELSE
        LET hp == [m.heap EXCEPT ![o].registered_rules = DictUpdate(@, defaults)]
        IN  Log([m EXCEPT !.heap = hp, !.g = m.g + 1],
                Ev("register_defaults", o, "", EmptyDict, EmptyDict, FALSE, "", Ready(hp, o)))

\* Enforcer.clear()
Clear(m, o) ==
    Log([m EXCEPT !.heap = [m.heap EXCEPT ![o] =
                     [rules |-> EmptyDict, registered_rules |-> EmptyDict,
                      use_conf |-> FALSE, cleared |-> TRUE]]],
        Ev("clear", o, "", EmptyDict, EmptyDict, FALSE, "", FALSE))

\* Enforcer.load_rules(): with use_conf the registered defaults fill the gaps
LoadRules(obj) ==
    IF obj.use_conf
    THEN [obj EXCEPT !.rules = DictUpdate(obj.registered_rules, obj.rules)]
    ELSE obj

\* Rules lookup: a missing rule falls back to the rule named "default"
Lookup(rules, rule) ==
    IF rule \in DOMAIN rules THEN Some(rules[rule])
    ELSE IF "default" \in DOMAIN rules THEN Some(rules["default"])
    ELSE None

\* whether the object allows the rule for target and credentials
Allows(obj, rule, target, creds) ==
    LET c == Lookup(LoadRules(obj).rules, rule)
    IN  c # None /\ CheckHolds(c[1], target, creds)

\* Enforcer.enforce(rule, target, creds, do_raise, exc)
EnforcerEnforce(m, o, name, rule, target, creds, do_raise, exc) ==
    IF o = 0 THEN
        [Log(m, Ev(name, 0, rule, target, creds, do_raise, exc, FALSE))
            EXCEPT !.out = Raised(AttributeError)]
    ELSE
        LET ok == Allows(m.heap[o], rule, target, creds)
            m1 == Log([m EXCEPT !.heap = [m.heap EXCEPT ![o] = LoadRules(@)]],
                      Ev(name, o, rule, target, creds, do_raise, exc, Ready(m.heap, o)))
        IN  IF ~ok /\ do_raise
            THEN [m1 EXCEPT !.out =
                     Raised(IF exc = "None" THEN PolicyNotAuthorized ELSE exc)]
            ELSE [m1 EXCEPT !.out = ReturnBool(ok)]

\* Enforcer.authorize(rule, target, creds, do_raise, exc)
EnforcerAuthorize(m, o, rule, target, creds, do_raise, exc) ==
    IF o # 0 /\ rule \notin DOMAIN m.heap[o].registered_rules THEN
        [Log(m, Ev("authorize", o, rule, target, creds, do_raise, exc, Ready(m.heap, o)))
            EXCEPT !.out = Raised(PolicyNotRegistered)]
    ELSE EnforcerEnforce(m, o, "authorize", rule, target, creds, do_raise, exc)

\* Enforcer.set_rules(rules, overwrite, use_conf)
EnforcerSetRules(m, o, rules, overwrite, use_conf) ==
    IF o = 0 THEN
        [Log(m, Ev("set_rules", 0, "", EmptyDict, EmptyDict, FALSE, "", FALSE))
            EXCEPT !.out = Raised(AttributeError)]
    ELSE
        LET obj == m.heap[o]
            new == [obj EXCEPT !.use_conf = use_conf,
                               !.rules = IF overwrite THEN rules
                                         ELSE DictUpdate(obj.rules, rules)]
        IN  Log([m EXCEPT !.heap = [m.heap EXCEPT ![o] = new]],
                Ev("set_rules", o, "", EmptyDict, EmptyDict, FALSE, "", Ready(m.heap, o)))

\* reading Enforcer.rules
EnforcerRules(m, o) ==
    [Log(m, Ev("rules", o, "", EmptyDict, EmptyDict, FALSE, "", Ready(m.heap, o)))
        EXCEPT !.out = Returned("rules", FALSE, m.heap[o].rules)]

-----------------------------------------------------------------------------
(* The functions of manila/policy.py *)

register_rules(m, enforcer) == RegisterDefaults(m, enforcer, list_rules)

\* reset that clears the enforcer but keeps the handle
reset_keeps_handle(m) ==
    IF Truthy(m.h) THEN Clear(m, m.h) ELSE m

reset(m) ==
    IF Truthy(m.h) THEN [Clear(m, m.h) EXCEPT !.h = 0] ELSE m

\* init without the test of the handle
init_always(m, rules, use_conf) ==
    LET m1 == Construct(m, rules, use_conf) IN register_rules(m1, m1.h)

init(m, rules, use_conf) ==
    IF ~Truthy(m.h)
    THEN LET m1 == Construct(m, rules, use_conf) IN register_rules(m1, m1.h)
    ELSE m

\* enforce that asks the enforcer to raise whatever do_raise is
enforce_always_raises(m, context, action, target, do_raise) ==
    LET m0 == Log(m, Ev("policy.enforce", 0, action, target, EmptyDict, do_raise, "", FALSE))
        m1 == init(m0, None, TRUE)
        ctx == IF context.isdict THEN AsDict(context) ELSE to_dict(context)
    IN  IF m1.out.kind = "raise" THEN m1
        ELSE EnforcerEnforce(m1, m1.h, "enforce", action, target, ctx, TRUE, PolicyNotAuthorized)

enforce(m, context, action, target, do_raise) ==
    LET m0 == Log(m, Ev("policy.enforce", 0, action, target, EmptyDict, do_raise, "", FALSE))
        m1 == init(m0, None, TRUE)
        ctx == IF context.isdict THEN AsDict(context) ELSE to_dict(context)
    IN  IF m1.out.kind = "raise" THEN m1
        ELSE IF do_raise
        THEN EnforcerEnforce(m1, m1.h, "enforce", action, target, ctx, TRUE, PolicyNotAuthorized)
        ELSE EnforcerEnforce(m1, m1.h, "enforce", action, target, ctx, FALSE, "None")

\* set_rules without the call of init
set_rules_no_init(m, rules, overwrite, use_conf) ==
    EnforcerSetRules(m, m.h, rules, overwrite, use_conf)

set_rules(m, rules, overwrite, use_conf) ==
    LET m1 == init(m, None, FALSE)
    IN  IF m1.out.kind = "raise" THEN m1
        ELSE EnforcerSetRules(m1, m1.h, rules, overwrite, use_conf)

get_rules(m) ==
    IF Truthy(m.h) THEN EnforcerRules(m, m.h) ELSE m

\* authorize that asks the enforcer to raise whatever do_raise is
authorize_always_raises(m, context, action, target, do_raise, exc) ==
    LET m0 == Log(m, Ev("policy.authorize", 0, action, target, EmptyDict, do_raise, exc, FALSE))
        m1 == init(m0, None, TRUE)
        credentials == to_policy_values(context)
        e == IF exc = "None" THEN PolicyNotAuthorized ELSE exc
    IN  IF m1.out.kind = "raise" THEN m1
        ELSE EnforcerAuthorize(m1, m1.h, action, target, credentials, TRUE, e)

\* authorize that drops the caller's exc
authorize_default_exc(m, context, action, target, do_raise, exc) ==
    LET m0 == Log(m, Ev("policy.authorize", 0, action, target, EmptyDict, do_raise, exc, FALSE))
        m1 == init(m0, None, TRUE)
        credentials == to_policy_values(context)
    IN  IF m1.out.kind = "raise" THEN m1
        ELSE EnforcerAuthorize(m1, m1.h, action, target, credentials, do_raise,
                               PolicyNotAuthorized)

authorize(m, context, action, target, do_raise, exc) ==
    LET m0 == Log(m, Ev("policy.authorize", 0, action, target, EmptyDict, do_raise, exc, FALSE))
        m1 == init(m0, None, TRUE)
        credentials == to_policy_values(context)
        e == IF exc = "None" THEN PolicyNotAuthorized ELSE exc
    IN  IF m1.out.kind = "raise" THEN m1
        ELSE EnforcerAuthorize(m1, m1.h, action, target, credentials, do_raise, e)

check_is_admin(m, context) ==
    LET m1 == init(m, None, TRUE)
        credentials == to_policy_values(context)
        target == credentials
    IN  IF m1.out.kind = "raise" THEN m1
        ELSE EnforcerAuthorize(m1, m1.h, "context_is_admin", target, credentials,
                               FALSE, "None")

\* the resources whose policies are checked through authorize
AuthorizeResources ==
    {"share_instance_export_location", "share_type",
     "share", "share_snapshot",
     "share_snapshot_export_location",
     "share_snapshot_instance",
     "share_snapshot_instance_export_location",
     "quota_set", "quota_class_set", "service",
     "share_server", "share_group", "share_group_snapshot",
     "share_group_type", "share_group_types_spec"}

\* '%s:%s' % (resource, action)
ActionName(resource, action) == resource \o ":" \o action

\* a target in which the context's values win over target_obj's
BuildTarget_context_wins(context, target_obj) ==
    [target |-> DictUpdate(IF target_obj = None \/ target_obj[1] = EmptyDict
                           THEN EmptyDict ELSE target_obj[1],
                           [k \in {"project_id", "user_id"} |->
                               IF k = "project_id" THEN context.project_id
                               ELSE context.user_id]),
     target_obj |-> target_obj]

\* a target built by updating the caller's mapping in place
BuildTarget_in_place(context, target_obj) ==
    LET t == DictUpdate([k \in {"project_id", "user_id"} |->
                            IF k = "project_id" THEN context.project_id
                            ELSE context.user_id],
                        IF target_obj = None \/ target_obj[1] = EmptyDict
                        THEN EmptyDict ELSE target_obj[1])
    IN  [target |-> t,
         target_obj |-> IF target_obj = None THEN None ELSE Some(t)]

\* the target check_policy builds, and the caller's target_obj afterwards:
\* a new dict is updated with target_obj or {}, target_obj is only read
BuildTarget(context, target_obj) ==
    [target |-> DictUpdate([k \in {"project_id", "user_id"} |->
                               IF k = "project_id" THEN context.project_id
                               ELSE context.user_id],
                           IF target_obj = None \/ target_obj[1] = EmptyDict
                           THEN EmptyDict ELSE target_obj[1]),
     target_obj |-> target_obj]

\* check_policy with one name missing from the list
check_policy_short_list(m, context, resource, action, target_obj) ==
    LET built == BuildTarget(context, target_obj)
        target == built.target
        _action == ActionName(resource, action)
        m0 == Log(m, Ev("target_obj", 0, _action, built.target_obj, EmptyDict,
                        FALSE, "", FALSE))
        m1 == IF resource \in AuthorizeResources \ {"quota_class_set"}
              THEN authorize(m0, context, _action, target, TRUE, "None")
              ELSE enforce(m0, context, _action, target, TRUE)
    IN  IF m1.out.kind = "raise" THEN m1 ELSE [m1 EXCEPT !.out = ReturnNone]

check_policy(m, context, resource, action, target_obj) ==
    LET built == BuildTarget(context, target_obj)
        target == built.target
        _action == ActionName(resource, action)
        m0 == Log(m, Ev("target_obj", 0, _action, built.target_obj, EmptyDict,
                        FALSE, "", FALSE))
        m1 == IF resource \in AuthorizeResources
              THEN authorize(m0, context, _action, target, TRUE, "None")
              ELSE enforce(m0, context, _action, target, TRUE)
    IN  IF m1.out.kind = "raise" THEN m1 ELSE [m1 EXCEPT !.out = ReturnNone]

\* what the decorated method returns for its arguments
FuncResult(func, context, target_obj) ==
    [k \in {"f", "project_id", "target_obj"} |->
        CASE k = "f" -> func
          [] k = "project_id" -> context.project_id
          [] OTHER -> target_obj]

\* a wrapper that runs the method before the check
wrapped_body_first(m, resource, func, context, target_obj) ==
    LET m1 == Log(m, Ev("func", 0, func, target_obj, context, FALSE, "", FALSE))
        m2 == check_policy(m1, context, resource, func, target_obj)
    IN  IF m2.out.kind = "raise" THEN m2
        ELSE [m2 EXCEPT !.out = Returned("value", FALSE,
                                         FuncResult(func, context, target_obj))]

\* wrap_check_policy(resource)(func)(self, context, target_obj)
wrapped(m, resource, func, context, target_obj) ==
    LET m1 == check_policy(m, context, resource, func, target_obj)
    IN  IF m1.out.kind = "raise" THEN m1
        ELSE [Log(m1, Ev("func", 0, func, target_obj, context, FALSE, "", FALSE))
                EXCEPT !.out = Returned("value", FALSE,
                                        FuncResult(func, context, target_obj))]

-----------------------------------------------------------------------------
(* State *)

Threads == 1..NThreads
Objects == 1..MaxEnforcers

Args(context, resource, action, target, do_raise, exc) ==
    [context |-> context, resource |-> resource, action |-> action,
     target |-> target, do_raise |-> do_raise, exc |-> exc]

NoArgs == Args(NoContext, "", "", None, FALSE, "None")

NoCall == [op |-> "none", args |-> NoArgs, pre |-> 0, ev |-> <<>>, out |-> ReturnNone]

Init ==
    /\ _ENFORCER = 0
    /\ heap = [o \in Objects |-> NoObject]
    /\ constructed = 0
    /\ registrations = 0
    /\ last = NoCall
    /\ pc = [t \in Threads |-> "idle"]
    /\ top = [t \in Threads |-> "none"]
    /\ tmp = [t \in Threads |-> 0]
    /\ used = [t \in Threads |-> [obj |-> 0, ready |-> FALSE, out |-> ReturnNone]]

Now == Machine(_ENFORCER, heap, constructed, registrations)

\* the state after a call, and the record of the call
Commit(m, call, args) ==
    /\ _ENFORCER' = m.h
    /\ heap' = m.heap
    /\ constructed' = m.n
    /\ registrations' = m.g
    /\ last' = [op |-> call, args |-> args, pre |-> _ENFORCER, ev |-> m.ev, out |-> m.out]
    /\ UNCHANGED <<pc, top, tmp, used>>

\* a call that constructs needs a free object id
Room == Truthy(_ENFORCER) \/ constructed < MaxEnforcers

\* inputs
Verbs == {"create", "delete"}
Resources == AuthorizeResources \cup {"share_network", "shares"}
WrappedResources == {"share", "share_type", "share_network"}
\* every resource with one action, the wrapped resources with every action
CheckedActions ==
    {<<r, "create">> : r \in Resources} \cup (WrappedResources \X Verbs)
ActionNames == {"share:create", "share:delete", "share_type:delete"}
Targets == {EmptyDict, [k \in {"project_id"} |-> "p1"]}
TargetObjs == {None, Some(EmptyDict),
               Some([k \in {"id", "project_id"} |-> IF k = "id" THEN "s1" ELSE "p1"])}
InitRules == {None} \cup {Some(d) : d \in RuleDicts}

Reset == Commit(reset(Now), "reset", NoArgs)

DoInit ==
    /\ Room
    /\ \E rules \in InitRules, use_conf \in BOOLEAN :
          Commit(init(Now, rules, use_conf), "init", NoArgs)

Enforce ==
    /\ Room
    /\ \E context \in Contexts \cup DictContexts, action \in ActionNames,
          target \in Targets, do_raise \in BOOLEAN :
          Commit(enforce(Now, context, action, target, do_raise), "enforce",
                 Args(context, "", action, Some(target), do_raise, "None"))

SetRules ==
    /\ Room
    /\ \E rules \in RuleDicts, overwrite \in BOOLEAN, use_conf \in BOOLEAN :
          Commit(set_rules(Now, rules, overwrite, use_conf), "set_rules", NoArgs)

GetRules == Commit(get_rules(Now), "get_rules", NoArgs)

Authorize ==
    /\ Room
    /\ \E context \in Contexts, action \in ActionNames, target \in Targets,
          do_raise \in BOOLEAN, exc \in ExcArgs :
          Commit(authorize(Now, context, action, target, do_raise, exc), "authorize",
                 Args(context, "", action, Some(target), do_raise, exc))

CheckIsAdmin ==
    /\ Room
    /\ \E context \in Contexts :
          Commit(check_is_admin(Now, context), "check_is_admin",
                 Args(context, "", "", None, FALSE, "None"))

CheckPolicy ==
    /\ Room
    /\ \E context \in Contexts, ra \in CheckedActions, target_obj \in TargetObjs :
          Commit(check_policy(Now, context, ra[1], ra[2], target_obj), "check_policy",
                 Args(context, ra[1], ra[2], target_obj, TRUE, "None"))

Wrapped ==
    /\ Room
    /\ \E context \in Contexts, resource \in WrappedResources, func \in Verbs,
          target_obj \in TargetObjs :
          Commit(wrapped(Now, resource, func, context, target_obj), "wrapped",
                 Args(context, resource, func, target_obj, TRUE, "None"))

Next ==
    \/ Reset
    \/ DoInit
    \/ Enforce
    \/ SetRules
    \/ GetRules
    \/ Authorize
    \/ CheckIsAdmin
    \/ CheckPolicy
    \/ Wrapped

Spec == Init /\ [][Next]_vars

-----------------------------------------------------------------------------
(* Concurrent first use: each thread makes one call; the statements of    *)
(* init() and the delegation that follows are separate steps.             *)

ConcOps == {"init", "enforce", "authorize", "check_is_admin", "set_rules"}

NotUsed == [obj |-> 0, ready |-> FALSE, out |-> ReturnNone]

\* a thread enters one of the functions that start with init()
TCall(t) ==
    /\ pc[t] = "idle"
    /\ \E op \in ConcOps : top' = [top EXCEPT ![t] = op]
    /\ pc' = [pc EXCEPT ![t] = "test"]
    /\ UNCHANGED <<_ENFORCER, heap, constructed, registrations, last, tmp, used>>

\* if not _ENFORCER:
TTest(t) ==
    /\ pc[t] = "test"
    /\ pc' = [pc EXCEPT ![t] = IF ~Truthy(_ENFORCER) THEN "construct" ELSE "delegate"]
    /\ UNCHANGED <<_ENFORCER, heap, constructed, registrations, last, top, tmp, used>>

\* policy.Enforcer(CONF, rules=rules, use_conf=use_conf)
TConstruct(t) ==
    /\ pc[t] = "construct"
    /\ constructed < MaxEnforcers
    /\ LET m == Construct(Now, None, top[t] # "set_rules")
       IN  /\ heap' = m.heap
           /\ constructed' = m.n
           /\ tmp' = [tmp EXCEPT ![t] = m.h]
    /\ pc' = [pc EXCEPT ![t] = "store"]
    /\ UNCHANGED <<_ENFORCER, registrations, last, top, used>>

\* _ENFORCER = <the new object>
TStore(t) ==
    /\ pc[t] = "store"
    /\ _ENFORCER' = tmp[t]
    /\ pc' = [pc EXCEPT ![t] = "register"]
    /\ UNCHANGED <<heap, constructed, registrations, last, top, tmp, used>>

\* register_rules(_ENFORCER): the global is read again
TRegister(t) ==
    /\ pc[t] = "register"
    /\ LET m == register_rules(Now, _ENFORCER)
       IN  /\ heap' = m.heap
           /\ registrations' = m.g
           /\ IF m.out.kind = "raise"
              THEN /\ pc' = [pc EXCEPT ![t] = "done"]
                   /\ used' = [used EXCEPT ![t] =
                                  [obj |-> _ENFORCER, ready |-> Ready(heap, _ENFORCER),
                                   out |-> m.out]]
              ELSE /\ pc' = [pc EXCEPT ![t] = "delegate"]
                   /\ used' = used
    /\ UNCHANGED <<_ENFORCER, constructed, last, top, tmp>>

\* the delegation after init() returned: _ENFORCER.<method>(...)
TDelegate(t) ==
    /\ pc[t] = "delegate"
    /\ LET c == Ctx(FALSE, "p1", "u1", TRUE)
           m == CASE top[t] = "enforce" ->
                       EnforcerEnforce(Now, _ENFORCER, "enforce", "share:create", EmptyDict,
                                       to_dict(c), TRUE, PolicyNotAuthorized)
                  [] top[t] = "authorize" ->
                       EnforcerAuthorize(Now, _ENFORCER, "share:create", EmptyDict,
                                         to_policy_values(c), TRUE, PolicyNotAuthorized)
                  [] top[t] = "check_is_admin" ->
                       EnforcerAuthorize(Now, _ENFORCER, "context_is_admin",
                                         to_policy_values(c), to_policy_values(c),
                                         FALSE, "None")
                  [] top[t] = "set_rules" ->
                       EnforcerSetRules(Now, _ENFORCER, EmptyDict, TRUE, FALSE)
                  [] OTHER -> Now
       IN  /\ heap' = m.heap
           /\ used' = [used EXCEPT ![t] =
                          IF top[t] = "init" THEN NotUsed
                          ELSE [obj |-> _ENFORCER, ready |-> Ready(heap, _ENFORCER),
                                out |-> m.out]]
    /\ pc' = [pc EXCEPT ![t] = "done"]
    /\ UNCHANGED <<_ENFORCER, constructed, registrations, last, top, tmp>>

NextConc ==
    \E t \in Threads :
        \/ TCall(t)
        \/ TTest(t)
        \/ TConstruct(t)
        \/ TStore(t)
        \/ TRegister(t)
        \/ TDelegate(t)

SpecConc == Init /\ [][NextConc]_vars

-----------------------------------------------------------------------------
(* Properties *)

\* the positions of the events of the given kinds in a call's events
At(ev, kinds) == {i \in 1..Len(ev) : ev[i].ev \in kinds}

PathKinds == {"policy.authorize", "policy.enforce"}
DelegationKinds == {"enforce", "authorize", "set_rules", "rules"}
LifecycleKinds == {"construct", "register_defaults", "clear"}

\* the one event of the given kinds (a call with exactly one)
The(ev, kinds) == ev[CHOOSE i \in At(ev, kinds) : TRUE]

\* the shared enforcer, as it stands, denies what the delegation asked
Denies(e) == ~Allows(heap[e.obj], e.action, e.target, e.creds)

\* the action of the delegation has a registered policy
Registered(e) == e.action \in DOMAIN heap[e.obj].registered_rules

\* C1: init is idempotent. On an uninitialized handle init() constructs one
\* enforcer, registers the default rules on it and stores it in _ENFORCER;
\* with the handle initialized, init() (any arguments) and every other call
\* but reset() constructs nothing, registers nothing and leaves _ENFORCER
\* the same instance.
InitIdempotent ==
    /\ (last.op = "init" /\ last.pre = 0) =>
          /\ Len(last.ev) = 2
          /\ last.ev[1].ev = "construct" /\ last.ev[1].obj = _ENFORCER
          /\ last.ev[2].ev = "register_defaults" /\ last.ev[2].obj = _ENFORCER
          /\ Truthy(_ENFORCER) /\ Ready(heap, _ENFORCER)
    /\ (last.op = "init" /\ last.pre # 0) =>
          /\ last.ev = <<>>
          /\ _ENFORCER = last.pre
    /\ (last.op \notin {"none", "reset"} /\ last.pre # 0) =>
          /\ At(last.ev, LifecycleKinds) = {}
          /\ _ENFORCER = last.pre

InitIdempotentWitness ==
    /\ last.op = "init" /\ last.pre # 0 /\ _ENFORCER = last.pre
    /\ constructed = 1 /\ registrations = 1

\* C2: reset() on an initialized handle clears the current enforcer and sets
\* the handle to None, and on an uninitialized handle changes nothing; an
\* init() on the emptied handle constructs a new instance, distinct from
\* every discarded one, and registers the default rules on it.
ResetThenInit ==
    [][ /\ (last'.op = "reset" /\ Truthy(_ENFORCER)) =>
              /\ _ENFORCER' = 0
              /\ Len(last'.ev) = 1
              /\ last'.ev[1].ev = "clear" /\ last'.ev[1].obj = _ENFORCER
              /\ heap'[_ENFORCER].cleared
              /\ heap'[_ENFORCER].rules = EmptyDict
              /\ heap'[_ENFORCER].registered_rules = EmptyDict
        /\ (last'.op = "reset" /\ ~Truthy(_ENFORCER)) =>
              /\ last'.ev = <<>>
              /\ UNCHANGED <<_ENFORCER, heap, constructed, registrations>>
        /\ (last'.op = "init" /\ ~Truthy(_ENFORCER)) =>
              /\ Truthy(_ENFORCER')
              /\ _ENFORCER' \notin 1..constructed
              /\ constructed' = constructed + 1
              /\ registrations' = registrations + 1
              /\ ~heap'[_ENFORCER'].cleared
              /\ Ready(heap', _ENFORCER')
      ]_vars

ResetThenInitWitness ==
    /\ last.op = "init" /\ last.pre = 0
    /\ constructed = 2 /\ _ENFORCER = 2
    /\ heap[1].cleared /\ Ready(heap, 2)

\* C3: check_policy takes the authorize path exactly when the resource is
\* one of the fifteen names of the list, the enforce path otherwise; one of
\* the two is invoked, once, with the action "<resource>:<action>".
CheckPolicyDispatch ==
    /\ Cardinality(AuthorizeResources) = 15
    /\ last.op = "check_policy" =>
          /\ Cardinality(At(last.ev, PathKinds)) = 1
          /\ LET e == The(last.ev, PathKinds)
             IN  /\ (e.ev = "policy.authorize") <=>
                        (last.args.resource \in
                            {"share_instance_export_location", "share_type", "share",
                             "share_snapshot", "share_snapshot_export_location",
                             "share_snapshot_instance",
                             "share_snapshot_instance_export_location", "quota_set",
                             "quota_class_set", "service", "share_server", "share_group",
                             "share_group_snapshot", "share_group_type",
                             "share_group_types_spec"})
                 /\ e.action = last.args.resource \o ":" \o last.args.action

CheckPolicyDispatchWitness ==
    /\ last.op = "check_policy"
    /\ last.args.resource = "quota_set"
    /\ At(last.ev, {"policy.authorize"}) # {}

\* C4: enforce raises PolicyNotAuthorized when the enforcer denies the action
\* and do_raise is true; with do_raise false it returns a false value on
\* denial and never raises, whether or not a rule exists for the action.
EnforceDenial ==
    last.op = "enforce" =>
        /\ Cardinality(At(last.ev, {"enforce"})) = 1
        /\ LET e == The(last.ev, {"enforce"})
           IN  /\ e.action = last.args.action
               /\ (Denies(e) /\ last.args.do_raise) => last.out = Raised(PolicyNotAuthorized)
               /\ (Denies(e) /\ ~last.args.do_raise) => last.out = ReturnBool(FALSE)
               /\ ~last.args.do_raise => last.out.kind # "raise"

EnforceDenialWitness ==
    /\ last.op = "enforce"
    /\ ~last.args.do_raise
    /\ last.args.action = "share_type:delete"
    /\ Lookup(heap[_ENFORCER].rules, "share_type:delete") = None
    /\ last.out = ReturnBool(FALSE)

\* C5 as stated: authorize with do_raise false never raises and returns
\* False when the action is not authorized, for every action, whether or
\* not a policy is registered for it.
AuthorizeNeverRaises ==
    (last.op = "authorize" /\ ~last.args.do_raise) =>
        /\ last.out.kind # "raise"
        /\ \A i \in At(last.ev, {"authorize"}) :
              (~Registered(last.ev[i]) \/ Denies(last.ev[i])) => last.out = ReturnBool(FALSE)

\* C5 amended: authorize with do_raise false returns False, and does not
\* raise, when the action has a registered policy that denies it; for an
\* action with no registered policy it raises PolicyNotRegistered.
AuthorizeNonRaisingRegistered ==
    (last.op = "authorize" /\ ~last.args.do_raise) =>
        /\ Cardinality(At(last.ev, {"authorize"})) = 1
        /\ LET e == The(last.ev, {"authorize"})
           IN  /\ e.action = last.args.action
               /\ Registered(e) => last.out = ReturnBool(~Denies(e))
               /\ ~Registered(e) => last.out = Raised(PolicyNotRegistered)

AuthorizeNonRaisingWitness ==
    /\ last.op = "authorize"
    /\ ~last.args.do_raise
    /\ Registered(The(last.ev, {"authorize"}))
    /\ Denies(The(last.ev, {"authorize"}))
    /\ last.out = ReturnBool(FALSE)

\* C6: authorize with do_raise true raises, on denial, the caller's exc when
\* one is given and PolicyNotAuthorized when none is.
AuthorizeExc ==
    (last.op = "authorize" /\ last.args.do_raise) =>
        /\ Cardinality(At(last.ev, {"authorize"})) = 1
        /\ LET e == The(last.ev, {"authorize"})
           IN  (Registered(e) /\ Denies(e)) =>
                  /\ last.args.exc = "None" => last.out = Raised(PolicyNotAuthorized)
                  /\ last.args.exc # "None" =>
                        /\ last.out = Raised(last.args.exc)
                        /\ last.out.exc # PolicyNotAuthorized

AuthorizeExcWitness ==
    /\ last.op = "authorize"
    /\ last.args.do_raise
    /\ last.args.exc = "Forbidden"
    /\ last.out = Raised("Forbidden")

\* C7: in calls made one after another every delegation to the shared
\* enforcer runs on a non-null handle with the default rules registered, and
\* get_rules on an uninitialized handle returns None without initializing.
DelegationInitialized ==
    /\ \A i \in At(last.ev, DelegationKinds) :
          /\ last.ev[i].obj # 0
          /\ last.ev[i].obj = _ENFORCER
          /\ last.ev[i].ready
    /\ last.out.kind = "raise" => last.out.exc # AttributeError
    /\ last.op \in {"enforce", "authorize", "check_is_admin", "set_rules",
                    "check_policy", "wrapped"} =>
          Cardinality(At(last.ev, DelegationKinds)) = 1
    /\ (last.op = "get_rules" /\ last.pre = 0) =>
          /\ last.out = ReturnNone
          /\ last.ev = <<>>
          /\ _ENFORCER = 0
    /\ (last.op = "get_rules" /\ last.pre # 0) =>
          /\ last.out.kind = "rules"
          /\ last.out.r = heap[_ENFORCER].rules

DelegationInitializedWitness ==
    /\ last.op = "set_rules"
    /\ last.pre = 0
    /\ constructed = 2
    /\ At(last.ev, {"set_rules"}) # {}

\* C8: when threads make their first calls concurrently on an uninitialized
\* handle, the enforcer is constructed once, the default rules are
\* registered once, no call fails, and every delegation runs on that one
\* instance with the default rules registered.
ConcurrentInitOnce ==
    /\ constructed <= 1
    /\ registrations <= 1
    /\ \A t \in Threads :
          (pc[t] = "done" /\ top[t] # "init") =>
              /\ used[t].obj = 1
              /\ used[t].ready
              /\ used[t].out.kind = "raise" =>
                    used[t].out.exc \notin {AttributeError, DuplicatePolicyError}

\* C9: a method decorated with wrap_check_policy(resource) checks the policy
\* "<resource>:<method name>" once, before the method body; the body does
\* not run when the check fails and the exception reaches the caller; when
\* the check passes the body runs once with the caller's arguments and its
\* result is returned.
WrappedChecksFirst ==
    last.op = "wrapped" =>
        /\ Cardinality(At(last.ev, PathKinds)) = 1
        /\ Cardinality(At(last.ev, {"enforce", "authorize"})) = 1
        /\ LET p == The(last.ev, PathKinds)
               e == The(last.ev, {"enforce", "authorize"})
               fails == (e.ev = "authorize" /\ ~Registered(e)) \/ Denies(e)
               body == At(last.ev, {"func"})
           IN  /\ p.action = last.args.resource \o ":" \o last.args.action
               /\ e.action = p.action
               /\ fails =>
                     /\ body = {}
                     /\ last.out.kind = "raise"
                     /\ last.out.exc \in {PolicyNotAuthorized, PolicyNotRegistered}
               /\ ~fails =>
                     /\ body = {Len(last.ev)}
                     /\ \A i \in At(last.ev, PathKinds \cup {"enforce", "authorize"}) :
                           i < Len(last.ev)
                     /\ last.ev[Len(last.ev)].action = last.args.action
                     /\ last.ev[Len(last.ev)].creds = last.args.context
                     /\ last.ev[Len(last.ev)].target = last.args.target
                     /\ last.out = Returned("value", FALSE,
                                            FuncResult(last.args.action, last.args.context,
                                                       last.args.target))

WrappedChecksFirstWitness ==
    /\ last.op = "wrapped"
    /\ last.out = Raised(PolicyNotAuthorized)
    /\ At(last.ev, {"func"}) = {}
    /\ At(last.ev, {"authorize"}) # {}

\* C10: the target check_policy passes on has the keys project_id and
\* user_id; every key of target_obj has target_obj's value, project_id and
\* user_id otherwise have the context's, and there are no other keys; the
\* caller's target_obj is as it was.
CheckPolicyTarget ==
    last.op = "check_policy" =>
        /\ Cardinality(At(last.ev, PathKinds)) = 1
        /\ LET t == The(last.ev, PathKinds).target
               obj == IF last.args.target = None THEN EmptyDict ELSE last.args.target[1]
               c == last.args.context
           IN  /\ DOMAIN t = {"project_id", "user_id"} \cup DOMAIN obj
               /\ \A k \in DOMAIN obj : t[k] = obj[k]
               /\ "project_id" \notin DOMAIN obj => t["project_id"] = c.project_id
               /\ "user_id" \notin DOMAIN obj => t["user_id"] = c.user_id
               /\ \A i \in At(last.ev, {"enforce", "authorize"}) : last.ev[i].target = t
               /\ Cardinality(At(last.ev, {"target_obj"})) = 1
               /\ The(last.ev, {"target_obj"}).target = last.args.target

CheckPolicyTargetWitness ==
    /\ last.op = "check_policy"
    /\ last.args.context.project_id = "p2"
    /\ last.args.target # None
    /\ "project_id" \in DOMAIN last.args.target[1]
    /\ The(last.ev, PathKinds).target["project_id"] = "p1"

====
